---------------------------- MODULE Spec2Model ----------------------------
(***************************************************************************)
(* Depthwise conv2d lowering of torch/csrc/jit/tensorexpr/operators/       *)
(* conv2d.cpp: the support oracle (conv2dIsSupported), the dispatcher      *)
(* (computeConv2d), the masked reduction (conv2d_depthwise_static and      *)
(* conv2d_depthwise_dynamic) and the loop specialization that follows it.  *)
(* The loop nest is a tree of For loops and Store statements; evaluating   *)
(* it writes the output buffer.                                            *)
(***************************************************************************)
EXTENDS Integers, Sequences, FiniteSets, TLC

VARIABLES
    pc,      \* position of the lowering / evaluation / dispatch
    cfg,     \* operands and parameters of the call under way
    nest,    \* root block of the LoopNest (a sequence of statements)
    main,    \* the ForPtr the policy holds (a path into nest, or NullLoop)
    cur,     \* evaluation cursor: <<index of the root statement, iteration>>
    out,     \* output buffer: element -> [inits, acc, contribs]
    res      \* what the call returned (dispatcher, extents)

vars == <<pc, cfg, nest, main, cur, out, res>>

(***************************************************************************)
(* Bounds of the model.                                                    *)
(***************************************************************************)
MaxH == 6
MaxR == 4
MaxEdits == 2

Strides == {1, 2}
Pads == {0, 1, 2}
\* <<N, K>>: batch size and channel count (K = C = groups).
BatchChannels == {<<1, 2>>, <<2, 1>>}

(***************************************************************************)
(* float32 values.  Finite values are small integers (exact in float32);   *)
(* the non-finite values follow IEEE 754.  "undef" is what a read outside  *)
(* a buffer, or of an element never written, yields.                       *)
(***************************************************************************)
Fin(x) == [k |-> "fin", v |-> x]
PInf == [k |-> "inf", v |-> 1]
NInf == [k |-> "inf", v |-> -1]
NaN == [k |-> "nan", v |-> 0]
Undef == [k |-> "undef", v |-> 0]

IsFinite(a) == a.k = "fin"

Sgn(x) == IF x > 0 THEN 1 ELSE IF x < 0 THEN -1 ELSE 0

FMul(a, b) ==
    IF a.k = "undef" \/ b.k = "undef" THEN Undef
    ELSE IF a.k = "nan" \/ b.k = "nan" THEN NaN
    ELSE IF a.k = "inf" \/ b.k = "inf"
         THEN IF a.v = 0 \/ b.v = 0 THEN NaN
              ELSE [k |-> "inf", v |-> Sgn(a.v) * Sgn(b.v)]
    ELSE Fin(a.v * b.v)

FAdd(a, b) ==
    IF a.k = "undef" \/ b.k = "undef" THEN Undef
    ELSE IF a.k = "nan" \/ b.k = "nan" THEN NaN
    ELSE IF a.k = "inf" /\ b.k = "inf"
         THEN IF a.v = b.v THEN a ELSE NaN
    ELSE IF a.k = "inf" THEN a
    ELSE IF b.k = "inf" THEN b
    ELSE Fin(a.v + b.v)

\* C++ integer division: the quotient is truncated toward zero.
TruncDiv(a, b) ==
    Sgn(a) * Sgn(b) * ((IF a < 0 THEN -a ELSE a) \div (IF b < 0 THEN -b ELSE b))


(***************************************************************************)
(* Operand metadata.  A TensorInfo is [dims, dtype]; dims is 1-indexed     *)
(* here, so Dim(t, i) is the code's t.dims[i].                             *)
(***************************************************************************)
Info(dims, dtype) == [dims |-> dims, dtype |-> dtype]

Dim(t, i) == t.dims[i + 1]

\* An ArgValue holding an int64_t, and one holding an IntList.
IntArg(i) == [isList |-> FALSE, list |-> <<i>>]
ListArg(l) == [isList |-> TRUE, list |-> l]

\* _pair_int: an IntList gives its first two entries, a scalar is doubled.
PairInt(v) ==
    IF v.isList THEN <<v.list[1], v.list[2]>> ELSE <<v.list[1], v.list[1]>>

\* conv2dIsSupported with the 3x3 test reading the height only.
IsSupportedKernelBug(input, weight, bias, stride, pad, dilation, groups) ==
    IF input.dtype # "Float" \/ weight.dtype # "Float" \/ bias.dtype # "Float"
    THEN FALSE
    ELSE IF Len(input.dims) # 4 \/ Len(weight.dims) # 4 \/ Len(bias.dims) # 1
    THEN FALSE
    ELSE IF Dim(input, 1) # Dim(weight, 0) \/ Dim(input, 1) # groups
            \/ Dim(weight, 1) # 1
    THEN FALSE
    ELSE IF Dim(weight, 2) # 3
    THEN FALSE
    ELSE IF Len(stride) # 2 \/ stride[1] # stride[2]
    THEN FALSE
    ELSE IF Len(pad) # 2 \/ pad[1] # pad[2]
    THEN FALSE
    ELSE IF Len(dilation) # 2 \/ dilation[1] # 1 \/ dilation[2] # 1
    THEN FALSE
    ELSE TRUE

\* The oracle: each test returns false at once, in the code's order.
conv2dIsSupported(input, weight, bias, stride, pad, dilation, groups) ==
    IF input.dtype # "Float" \/ weight.dtype # "Float" \/ bias.dtype # "Float"
    THEN FALSE
    ELSE IF Len(input.dims) # 4 \/ Len(weight.dims) # 4 \/ Len(bias.dims) # 1
    THEN FALSE
    ELSE IF Dim(input, 1) # Dim(weight, 0) \/ Dim(input, 1) # groups
            \/ Dim(weight, 1) # 1
    THEN FALSE
    ELSE IF Dim(weight, 2) # 3 \/ Dim(weight, 3) # 3
    THEN FALSE
    ELSE IF Len(stride) # 2 \/ stride[1] # stride[2]
    THEN FALSE
    ELSE IF Len(pad) # 2 \/ pad[1] # pad[2]
    THEN FALSE
    ELSE IF Len(dilation) # 2 \/ dilation[1] # 1 \/ dilation[2] # 1
    THEN FALSE
    ELSE TRUE

\* The dispatcher's test with the bias metadata left out.
UsesBuilderNoBiasInfo(c) ==
    /\ c.meta[1] /\ c.meta[2]
    /\ conv2dIsSupported(c.input, c.weight, c.bias, PairInt(c.stride),
                         PairInt(c.pad), PairInt(c.dilation), c.groups)

\* computeConv2d's test: getTensorInfo gave all three and the oracle accepts.
\* The oracle is only evaluated when the three are there (&& short-circuits).
UsesBuilder(c) ==
    /\ c.meta[1] /\ c.meta[2] /\ c.meta[3]
    /\ conv2dIsSupported(c.input, c.weight, c.bias, PairInt(c.stride),
                         PairInt(c.pad), PairInt(c.dilation), c.groups)

\* What computeConv2d returns: the builder's tensor, or ResultBuf bound to
\* one ExternalCall of nnc_aten_conv2d.
computeConv2dResult(c) ==
    IF UsesBuilder(c)
    THEN [path |-> "conv2d_depthwise", buf |-> "conv2d_depthwise",
          stmts |-> <<>>, error |-> FALSE,
          builderCalls |-> <<<<PairInt(c.stride)[1], PairInt(c.pad)[1],
                               c.groups>>>>]
    ELSE [path |-> "external", buf |-> "conv",
          stmts |-> <<[call |-> "nnc_aten_conv2d",
                       bufs |-> <<"inp", "w", "b">>,
                       args |-> <<PairInt(c.stride)[1], PairInt(c.stride)[2],
                                  PairInt(c.pad)[1], PairInt(c.pad)[2],
                                  PairInt(c.dilation)[1],
                                  PairInt(c.dilation)[2], c.groups>>]>>,
          error |-> FALSE, builderCalls |-> <<>>]


(***************************************************************************)
(* The operands of one builder call.  cfg.input is <<N, C, H, W>>,         *)
(* cfg.weight is <<K, CperG, R, S>>; cfg.mode names the overload of        *)
(* conv2d_depthwise; cfg.wpat names the weight data.                       *)
(***************************************************************************)
cN(c) == c.input[1]
cC(c) == c.input[2]
cH(c) == c.input[3]
cW(c) == c.input[4]
cK(c) == c.weight[1]
cCperG(c) == c.weight[2]
cR(c) == c.weight[3]
cS(c) == c.weight[4]

IsStatic(c) == c.mode \in {"static_bias", "static_nobias"}
HasBias(c) == c.mode \in {"static_bias", "dynamic_bias"}

\* Output extent with the padding counted once.
OutExtentOnePad(X, R, pad, stride) == TruncDiv(X - R + pad, stride) + 1

\* conv2d_depthwise_static: OH = (H - R + 2 * pad) / stride + 1 on ints.
OutExtent(X, R, pad, stride) == TruncDiv(X - R + 2 * pad, stride) + 1

\* conv2d_depthwise_dynamic: the same expression on int ExprHandles.
DynOutExtent(X, R, pad, stride) == TruncDiv(X - R + pad * 2, stride) + 1

cOH(c) ==
    IF IsStatic(c) THEN OutExtent(cH(c), cR(c), c.pad, c.stride)
    ELSE DynOutExtent(cH(c), cR(c), c.pad, c.stride)

cOW(c) ==
    IF IsStatic(c) THEN OutExtent(cW(c), cS(c), c.pad, c.stride)
    ELSE DynOutExtent(cW(c), cS(c), c.pad, c.stride)

(***************************************************************************)
(* Buffer contents.  A load outside the buffer's dims yields Undef.        *)
(***************************************************************************)
InputData(n, k, ih, iw) == Fin(((n + 2 * k + 3 * ih + iw) % 5) - 1)

FiniteWeight(k, r, s) == Fin(1 + ((k + 2 * r + s) % 4))

WeightData(c, k, r, s) ==
    IF c.wpat = "inf00" /\ r = 0 /\ s = 0 THEN PInf
    ELSE IF c.wpat = "nan22" /\ r = 2 /\ s = 2 THEN NaN
    ELSE FiniteWeight(k, r, s)

BiasData(k) == Fin(10 + k)

InputInBounds(c, n, k, ih, iw) ==
    /\ 0 <= n /\ n < cN(c)
    /\ 0 <= k /\ k < cC(c)
    /\ 0 <= ih /\ ih < cH(c)
    /\ 0 <= iw /\ iw < cW(c)

WeightInBounds(c, k, cc, r, s) ==
    /\ 0 <= k /\ k < cK(c)
    /\ 0 <= cc /\ cc < cCperG(c)
    /\ 0 <= r /\ r < cR(c)
    /\ 0 <= s /\ s < cS(c)

BiasInBounds(c, k) == 0 <= k /\ k < cK(c)

InputLoad(c, n, k, ih, iw) ==
    IF InputInBounds(c, n, k, ih, iw) THEN InputData(n, k, ih, iw) ELSE Undef

WeightLoad(c, k, cc, r, s) ==
    IF WeightInBounds(c, k, cc, r, s) THEN WeightData(c, k, r, s) ELSE Undef

BiasLoad(c, k) == IF BiasInBounds(c, k) THEN BiasData(k) ELSE Undef

(***************************************************************************)
(* The reduction body.  v is the index record [n, k, oh, ow, c, r, s].     *)
(***************************************************************************)
\* CompareSelect::make(lhs, rhs, ret1, ret2, op): ret1 when lhs op rhs.
CompareSelectLT(lhs, rhs, ret1, ret2) == IF lhs < rhs THEN ret1 ELSE ret2
CompareSelectGE(lhs, rhs, ret1, ret2) == IF lhs >= rhs THEN ret1 ELSE ret2

IH(c, v) == v.oh * c.stride - c.pad + v.r
IW(c, v) == v.ow * c.stride - c.pad + v.s

\* The chain with the upper tests written with > instead of >=.
MaskUpperBug(c, v) ==
    LET c1 == CompareSelectLT(IH(c, v), 0, 1, 0)
        c2 == CompareSelectLT(IW(c, v), 0, 1, c1)
        c3 == CompareSelectGE(IH(c, v), cH(c) + 1, 1, c2)
        c4 == CompareSelectGE(IW(c, v), cW(c) + 1, 1, c3)
    IN  c4

\* The chain with the third select starting over from 0 instead of cond.
MaskChainBug(c, v) ==
    LET c1 == CompareSelectLT(IH(c, v), 0, 1, 0)
        c2 == CompareSelectLT(IW(c, v), 0, 1, c1)
        c3 == CompareSelectGE(IH(c, v), cH(c), 1, 0)
        c4 == CompareSelectGE(IW(c, v), cW(c), 1, c3)
    IN  c4

\* Static builder: the four chained CompareSelects.
Mask(c, v) ==
    LET c1 == CompareSelectLT(IH(c, v), 0, 1, 0)
        c2 == CompareSelectLT(IW(c, v), 0, 1, c1)
        c3 == CompareSelectGE(IH(c, v), cH(c), 1, c2)
        c4 == CompareSelectGE(IW(c, v), cW(c), 1, c3)
    IN  c4

\* Dynamic builder: the same chain on symbolic extents.
MaskDynamic(c, v) ==
    LET c1 == CompareSelectLT(IH(c, v), 0, 1, 0)
        c2 == CompareSelectLT(IW(c, v), 0, 1, c1)
        c3 == CompareSelectGE(IH(c, v), cH(c), 1, c2)
        c4 == CompareSelectGE(IW(c, v), cW(c), 1, c3)
    IN  c4

cMask(c, v) == IF IsStatic(c) THEN Mask(c, v) ELSE MaskDynamic(c, v)

\* ifThenElse(cond, 0.f, input.load(n, k, ih, iw)): only the chosen branch
\* is evaluated.
MaskedInput(c, v) ==
    IF cMask(c, v) # 0 THEN Fin(0)
    ELSE InputLoad(c, v.n, v.k, IH(c, v), IW(c, v))

\* in * weight.load(k, c, r, s)
Contribution(c, v) == FMul(MaskedInput(c, v), WeightLoad(c, v.k, v.c, v.r, v.s))

\* The initializer reading the bias at n instead of k.
InitValueBatchBug(c, v) == IF HasBias(c) THEN BiasLoad(c, v.n) ELSE Fin(0)

\* init_func: bias.load(v[1]), or Sum().initializer() in the bias-free overloads.
InitValue(c, v) == IF HasBias(c) THEN BiasLoad(c, v.k) ELSE Fin(0)

\* The loads one Store execution evaluates.
LoadsOf(c, ev) ==
    IF ev.kind = "init"
    THEN IF HasBias(c) THEN {[buf |-> "bias", ok |-> BiasInBounds(c, ev.v.k)]}
         ELSE {}
    ELSE {[buf |-> "weight",
           ok |-> WeightInBounds(c, ev.v.k, ev.v.c, ev.v.r, ev.v.s)]}
         \cup (IF cMask(c, ev.v) # 0 THEN {}
               ELSE {[buf |-> "input",
                      ok |-> InputInBounds(c, ev.v.n, ev.v.k,
                                           IH(c, ev.v), IW(c, ev.v))]})


(***************************************************************************)
(* The loop nest: a block is a sequence of statements, a statement is a    *)
(* For loop (with a block as body) or one of the two Stores to the output  *)
(* buffer.  A loop is named by its path: the index in the root block, then *)
(* the index in that loop's body, and so on.  NullLoop is a null ForPtr.   *)
(***************************************************************************)
NullLoop == <<0>>

ForLoop(var, start, stop, body) ==
    [kind |-> "for", var |-> var, start |-> start, stop |-> stop, body |-> body]

InitStore == [kind |-> "init", var |-> "", start |-> 0, stop |-> 0, body |-> <<>>]

ReduceStore ==
    [kind |-> "reduce", var |-> "", start |-> 0, stop |-> 0, body |-> <<>>]

kLoopH == 2
kLoopW == 3

Front(p) == SubSeq(p, 1, Len(p) - 1)
Last(p) == p[Len(p)]
Min(a, b) == IF a < b THEN a ELSE b
Max(a, b) == IF a > b THEN a ELSE b

\* Reduce(...) and LoopNest({conv}): the output loops n, k, oh, ow around the
\* initializer Store and the reduction loops c, r, s around the ReduceOp Store.
ReduceNest(c) ==
    <<ForLoop("n", 0, cN(c), <<
        ForLoop("k", 0, cK(c), <<
          ForLoop("oh", 0, cOH(c), <<
            ForLoop("ow", 0, cOW(c), <<
              InitStore,
              ForLoop("c", 0, TruncDiv(cC(c), c.groups), <<
                ForLoop("r", 0, cR(c), <<
                  ForLoop("s", 0, cS(c), <<ReduceStore>>)>>)>>)>>)>>)>>)>>)>>

RECURSIVE NodeAt(_, _)
NodeAt(block, p) ==
    IF Len(p) = 1 THEN block[p[1]] ELSE NodeAt(block[p[1]].body, Tail(p))

\* The block with the statement at path p replaced by the statements stmts.
RECURSIVE Splice(_, _, _)
Splice(block, p, stmts) ==
    IF Len(p) = 1
    THEN SubSeq(block, 1, p[1] - 1) \o stmts \o SubSeq(block, p[1] + 1, Len(block))
    ELSE [block EXCEPT ![p[1]].body = Splice(@, Tail(p), stmts)]

\* The paths of the Stores to the output buffer, in program order.
RECURSIVE WritePaths(_, _, _)
WritePaths(block, prefix, i) ==
    IF i > Len(block) THEN <<>>
    ELSE (IF block[i].kind = "for"
          THEN WritePaths(block[i].body, prefix \o <<i>>, 1)
          ELSE <<prefix \o <<i>>>>)
         \o WritePaths(block, prefix, i + 1)

Prefixes(p, n) == [i \in 1..n |-> SubSeq(p, 1, i)]

\* Length of the longest common prefix of the paths of ws.
CommonLen(ws) ==
    LET m == Len(ws[1])
        agree(j) == \A a \in 1..Len(ws) : Len(ws[a]) >= j /\ ws[a][j] = ws[1][j]
    IN  IF \E j \in 1..m : ~agree(j)
        THEN (CHOOSE j \in 1..m : ~agree(j) /\ \A x \in 1..(j - 1) : agree(x)) - 1
        ELSE m

\* LoopNest::getLoopStmtsFor(Tensor): the loops around getLoopBodyFor(buf),
\* which is the ReduceOp Store when the buffer has just the two writes, and
\* the block shared by all the writes otherwise.
getLoopStmtsFor(nst) ==
    LET ws == WritePaths(nst, <<>>, 1)
    IN  IF Len(ws) = 0 THEN <<>>
        ELSE IF Len(ws) = 2 /\ NodeAt(nst, ws[2]).kind = "reduce"
        THEN Prefixes(ws[2], Len(ws[2]) - 1)
        ELSE IF Len(ws) = 1 THEN Prefixes(ws[1], Len(ws[1]) - 1)
        ELSE Prefixes(ws[1], CommonLen(ws))

\* LoopNest::getAllLoopNestsWritingToBuf: the loops around each write.
getAllLoopNestsWritingToBuf(nst) ==
    LET ws == WritePaths(nst, <<>>, 1)
    IN  [i \in 1..Len(ws) |-> Prefixes(ws[i], Len(ws[i]) - 1)]

\* loops[i] of a std::vector<ForPtr>.
LoopAt(loops, i) == IF i + 1 <= Len(loops) THEN loops[i + 1] ELSE NullLoop

\* LoopNest::getParentLoop: null for null, and for a loop of the root block.
getParentLoop(f) ==
    IF f = NullLoop \/ Len(f) <= 1 THEN NullLoop ELSE Front(f)

\* sliceHead that drops the iteration at the cut.
sliceHeadSkipBug(nst, f, factor) ==
    LET node == IF f = NullLoop THEN InitStore ELSE NodeAt(nst, f)
        size == node.stop - node.start
        headEnd == Min(node.start + factor, node.stop)
    IN  IF f = NullLoop
        THEN [crash |-> TRUE, nest |-> nst, head |-> NullLoop, tail |-> NullLoop]
        ELSE IF factor >= size
        THEN [crash |-> FALSE, nest |-> nst, head |-> f, tail |-> NullLoop]
        ELSE [crash |-> FALSE,
              nest |-> Splice(nst, f, <<[node EXCEPT !.stop = headEnd],
                                       [node EXCEPT !.start = headEnd + 1]>>),
              head |-> f,
              tail |-> Front(f) \o <<Last(f) + 1>>]

\* LoopNest::sliceHead(f, factor, &head, &tail).  f's bounds are read first,
\* so a null f is a null dereference (crash).  When factor covers the loop,
\* head is f and tail is null; otherwise a clone over
\* [start, min(start + factor, stop)) is put before f, f starts at its end
\* and is the tail.
sliceHead(nst, f, factor) ==
    LET node == IF f = NullLoop THEN InitStore ELSE NodeAt(nst, f)
        size == node.stop - node.start
        headEnd == Min(node.start + factor, node.stop)
    IN  IF f = NullLoop
        THEN [crash |-> TRUE, nest |-> nst, head |-> NullLoop, tail |-> NullLoop]
        ELSE IF factor >= size
        THEN [crash |-> FALSE, nest |-> nst, head |-> f, tail |-> NullLoop]
        ELSE [crash |-> FALSE,
              nest |-> Splice(nst, f, <<[node EXCEPT !.stop = headEnd],
                                       [node EXCEPT !.start = headEnd]>>),
              head |-> f,
              tail |-> Front(f) \o <<Last(f) + 1>>]

\* LoopNest::sliceTail(f, factor, &head, &tail), null f as in sliceHead.  When
\* factor covers the loop, head is null and tail is f; otherwise a clone over
\* [max(start, stop - factor), stop) is put after f, f stops at its start and
\* is the head.
sliceTail(nst, f, factor) ==
    LET node == IF f = NullLoop THEN InitStore ELSE NodeAt(nst, f)
        size == node.stop - node.start
        tailStart == Max(node.start, node.stop - factor)
    IN  IF f = NullLoop
        THEN [crash |-> TRUE, nest |-> nst, head |-> NullLoop, tail |-> NullLoop]
        ELSE IF factor >= size
        THEN [crash |-> FALSE, nest |-> nst, head |-> NullLoop, tail |-> f]
        ELSE [crash |-> FALSE,
              nest |-> Splice(nst, f, <<[node EXCEPT !.stop = tailStart],
                                       [node EXCEPT !.start = tailStart]>>),
              head |-> f,
              tail |-> Front(f) \o <<Last(f) + 1>>]


(***************************************************************************)
(* Evaluation of a statement: the Store executions it performs, in order.  *)
(* Each carries the loop indices and the range of every enclosing loop.    *)
(***************************************************************************)
LoopVars == {"n", "k", "oh", "ow", "c", "r", "s"}

NoEnv ==
    [v |-> [x \in LoopVars |-> 0], lo |-> [x \in LoopVars |-> 0],
     hi |-> [x \in LoopVars |-> 0]]

Bind(env, var, i, lo, hi) ==
    [v |-> [env.v EXCEPT ![var] = i], lo |-> [env.lo EXCEPT ![var] = lo],
     hi |-> [env.hi EXCEPT ![var] = hi]]

RECURSIVE EvBlock(_, _, _)
RECURSIVE EvFor(_, _, _)
EvBlock(block, i, env) ==
    IF i > Len(block) THEN <<>>
    ELSE (IF block[i].kind = "for" THEN EvFor(block[i], block[i].start, env)
          ELSE <<[kind |-> block[i].kind, v |-> env.v, lo |-> env.lo,
                  hi |-> env.hi]>>)
         \o EvBlock(block, i + 1, env)

EvFor(st, i, env) ==
    IF i >= st.stop THEN <<>>
    ELSE EvBlock(st.body, 1, Bind(env, st.var, i, st.start, st.stop))
         \o EvFor(st, i + 1, env)

\* The output buffer, indexed [n][k][oh][ow].  An element records how often
\* it was initialised, its value, and the (c, r, s) added since.
Fresh == [inits |-> 0, acc |-> Undef, contribs |-> <<>>]

FreshBuffer(c) ==
    [n \in 0..(cN(c) - 1) |-> [k \in 0..(cK(c) - 1) |->
        [oh \in 0..(cOH(c) - 1) |-> [ow \in 0..(cOW(c) - 1) |-> Fresh]]]]

\* One Store: the initializer overwrites, the ReduceOp adds the body's value.
ApplyStore(c, st, ev) ==
    IF ev.kind = "init"
    THEN [inits |-> st.inits + 1, acc |-> InitValue(c, ev.v), contribs |-> <<>>]
    ELSE [inits |-> st.inits, acc |-> FAdd(st.acc, Contribution(c, ev.v)),
          contribs |-> Append(st.contribs, <<ev.v.c, ev.v.r, ev.v.s>>)]

StoreTo(c, buf, ev) ==
    [buf EXCEPT ![ev.v.n][ev.v.k][ev.v.oh][ev.v.ow] = ApplyStore(c, @, ev)]

\* The Stores evs[lo..hi] applied to buf in order.  The first half is
\* computed (the test on its domain) before the second half starts from it.
RECURSIVE RunStores(_, _, _, _, _)
RunStores(c, buf, evs, lo, hi) ==
    IF lo > hi THEN buf
    ELSE IF lo = hi THEN StoreTo(c, buf, evs[lo])
    ELSE LET mid == (lo + hi) \div 2
             half == RunStores(c, buf, evs, lo, mid)
         IN  IF DOMAIN half = DOMAIN buf
             THEN RunStores(c, half, evs, mid + 1, hi)
             ELSE half

RunAll(c, buf, stores) == RunStores(c, buf, stores, 1, Len(stores))

\* The Store executions of the whole block.
StoresOf(block) == EvBlock(block, 1, NoEnv)

\* The buffer after the whole block has run.
RunNest(c, block) == RunAll(c, FreshBuffer(c), StoresOf(block))

\* The Store executions of iteration i of the outermost loop at nst[at].
StoresOfIter(nst, at, i) ==
    EvBlock(nst[at].body, 1,
            Bind(NoEnv, nst[at].var, i, nst[at].start, nst[at].stop))

\* The first iteration at or after root statement i: <<i, start>>, or <<0, 0>>.
RECURSIVE FirstIter(_, _)
FirstIter(block, i) ==
    IF i > Len(block) THEN <<0, 0>>
    ELSE IF block[i].start < block[i].stop THEN <<i, block[i].start>>
    ELSE FirstIter(block, i + 1)

NextIter(block, at) ==
    IF at[2] + 1 < block[at[1]].stop THEN <<at[1], at[2] + 1>>
    ELSE FirstIter(block, at[1] + 1)


(***************************************************************************)
(* conv2d_depthwise: entry, reduction, loop specialization, return; then   *)
(* the evaluation of the returned statement.                               *)
(***************************************************************************)
Modes == {"static_bias", "static_nobias", "dynamic_bias", "dynamic_nobias"}

\* A dereference of a null ForPtr is undefined: the build either faults or
\* reaches the malformed_input throw that follows it.
NullDerefOutcomes == {"segfault", "malformed_input"}

\* Every overload on finite weights; the static ones also on weights with an
\* infinite or a NaN entry.
ModeData ==
    (Modes \X {"finite"})
    \cup {<<"static_bias", "inf00">>, <<"static_nobias", "nan22">>}

BuilderConfigs ==
    {[mode |-> md[1], input |-> <<nk[1], nk[2], h, w>>,
      weight |-> <<nk[2], 1, 3, 3>>, stride |-> st, pad |-> pd,
      groups |-> nk[2], wpat |-> md[2]] :
        md \in ModeData, nk \in BatchChannels, h \in 1..MaxH,
        w \in 1..MaxH, st \in Strides, pd \in Pads}

NoResult == [error |-> "", buf |-> ""]

Init ==
    /\ cfg \in BuilderConfigs
    /\ pc = "entry"
    /\ nest = <<>>
    /\ main = NullLoop
    /\ cur = <<0, 0>>
    /\ out = <<>>
    /\ res = NoResult

\* TORCH_INTERNAL_ASSERT(C == K && K == groups && CperG == 1); R == S.
StaticAsserts(c) ==
    /\ Len(c.input) = 4 /\ Len(c.weight) = 4
    /\ cC(c) = cK(c) /\ cK(c) = c.groups /\ cCperG(c) = 1
    /\ cR(c) = cS(c)

IsRuleA(c) == cR(c) = 3 /\ c.stride = 2 /\ c.pad = 1
IsRuleB(c) == cR(c) = 3 /\ c.stride = 1 /\ c.pad = 1

\* conv2d_depthwise_static up to LoopNest nest({conv}).
BuildStatic ==
    /\ pc = "entry" /\ IsStatic(cfg)
    /\ IF ~StaticAsserts(cfg)
       THEN /\ pc' = "crashed"
            /\ res' = [error |-> "internal_assert", buf |-> ""]
            /\ nest' = nest
       ELSE /\ nest' = ReduceNest(cfg)
            /\ pc' = IF IsRuleA(cfg) THEN "A1"
                     ELSE IF IsRuleB(cfg) THEN "B0" ELSE "return"
            /\ res' = res
    /\ UNCHANGED <<cfg, main, cur, out>>

\* conv2d_depthwise_dynamic: the Reduce is returned as it is.
BuildDynamic ==
    /\ pc = "entry" /\ ~IsStatic(cfg)
    /\ IF Len(cfg.input) # 4 \/ Len(cfg.weight) # 4
       THEN /\ pc' = "crashed"
            /\ res' = [error |-> "internal_assert", buf |-> ""]
            /\ nest' = nest
       ELSE /\ nest' = ReduceNest(cfg)
            /\ pc' = "return"
            /\ res' = res
    /\ UNCHANGED <<cfg, main, cur, out>>

\* The effect of one slice call r: the nest and the pointer kept, or a crash.
Sliced(r, nextpc, kept) ==
    \E o \in (IF r.crash THEN NullDerefOutcomes ELSE {"ok"}) :
        IF o = "ok"
        THEN /\ pc' = nextpc
             /\ nest' = r.nest
             /\ main' = kept
             /\ res' = res
        ELSE /\ pc' = "crashed"
             /\ res' = [error |-> o, buf |-> ""]
             /\ UNCHANGED <<nest, main>>

\* The width step slicing the height loop instead.
RuleASliceWSameLoop(nst) ==
    sliceHead(nst, LoopAt(getLoopStmtsFor(nst), kLoopH), 2)

\* Rule A: loops = getLoopStmtsFor(conv); sliceHead(loops[kLoopW], 2, ...).
RuleASliceW(nst) == sliceHead(nst, LoopAt(getLoopStmtsFor(nst), kLoopW), 2)

\* Rule A: loops = getLoopStmtsFor(conv); sliceHead(loops[kLoopH], 2, ...).
RuleASliceH(nst) == sliceHead(nst, LoopAt(getLoopStmtsFor(nst), kLoopH), 2)

RuleAWidth ==
    /\ pc = "A1"
    /\ Sliced(RuleASliceW(nest), "A2", main)
    /\ UNCHANGED <<cfg, cur, out>>

RuleAHeight ==
    /\ pc = "A2"
    /\ Sliced(RuleASliceH(nest), "return", main)
    /\ UNCHANGED <<cfg, cur, out>>

\* Rule B: main = getAllLoopNestsWritingToBuf(conv.buf())[1][kLoopW].
RuleBMainLoop(nst) == LoopAt(getAllLoopNestsWritingToBuf(nst)[2], kLoopW)

RuleBLocate ==
    /\ pc = "B0"
    /\ main' = RuleBMainLoop(nest)
    /\ pc' = "B1"
    /\ UNCHANGED <<cfg, nest, cur, out, res>>

\* nest.sliceHead(main, 1, &peeled, &main)
RuleBHeadW ==
    /\ pc = "B1"
    /\ LET sl == sliceHead(nest, main, 1) IN Sliced(sl, "B2", sl.tail)
    /\ UNCHANGED <<cfg, cur, out>>

\* nest.sliceTail(main, 1, &main, &peeled)
RuleBTailW ==
    /\ pc = "B2"
    /\ LET sl == sliceTail(nest, main, 1) IN Sliced(sl, "B3", sl.head)
    /\ UNCHANGED <<cfg, cur, out>>

\* The parent step taking the loop itself.
RuleBParentSkipped(f) == f

\* main = LoopNest::getParentLoop(main)
RuleBParentOf(f) == getParentLoop(f)

RuleBParent ==
    /\ pc = "B3"
    /\ main' = RuleBParentOf(main)
    /\ pc' = "B4"
    /\ UNCHANGED <<cfg, nest, cur, out, res>>

\* nest.sliceHead(main, 1, &peeled, &main) on the parent
RuleBHeadH ==
    /\ pc = "B4"
    /\ LET sl == sliceHead(nest, main, 1) IN Sliced(sl, "B5", sl.tail)
    /\ UNCHANGED <<cfg, cur, out>>

\* nest.sliceTail(main, 1, &main, &peeled) on the parent
RuleBTailH ==
    /\ pc = "B5"
    /\ LET sl == sliceTail(nest, main, 1) IN Sliced(sl, "return", sl.head)
    /\ UNCHANGED <<cfg, cur, out>>

\* return Tensor(conv.buf(), nest.root_stmt()); the caller then runs it.
Return ==
    /\ pc = "return"
    /\ res' = [error |-> "", buf |-> "conv2d_depthwise"]
    /\ out' = FreshBuffer(cfg)
    /\ cur' = FirstIter(nest, 1)
    /\ pc' = "eval"
    /\ UNCHANGED <<cfg, nest, main>>

\* One iteration of an outermost loop of the returned statement.
EvalStep ==
    /\ pc = "eval" /\ cur[1] # 0
    /\ out' = RunAll(cfg, out, StoresOfIter(nest, cur[1], cur[2]))
    /\ cur' = NextIter(nest, cur)
    /\ UNCHANGED <<pc, cfg, nest, main, res>>

EvalDone ==
    /\ pc = "eval" /\ cur[1] = 0
    /\ pc' = "done"
    /\ UNCHANGED <<cfg, nest, main, cur, out, res>>

Next ==
    \/ BuildStatic
    \/ BuildDynamic
    \/ RuleAWidth
    \/ RuleAHeight
    \/ RuleBLocate
    \/ RuleBHeadW
    \/ RuleBTailW
    \/ RuleBParent
    \/ RuleBHeadH
    \/ RuleBTailH
    \/ Return
    \/ EvalStep
    \/ EvalDone

Spec == Init /\ [][Next]_vars


(***************************************************************************)
(* computeConv2d: one call per configuration.  A configuration starts with *)
(* every test of the oracle passing and all metadata there; an edit makes  *)
(* one test fail, or takes one operand's metadata away.                    *)
(***************************************************************************)
OracleChecks ==
    {"dtype", "rank", "depthwise", "kernel", "stride", "pad", "dilation"}

Operands == {"input", "weight", "bias"}

\* Stride and padding arrive as an int or as an IntList.
PassingStrides == {IntArg(1), IntArg(2), ListArg(<<1, 1>>), ListArg(<<2, 2>>)}
PassingPads == {IntArg(0), IntArg(1), ListArg(<<1, 1>>)}

DispatchConfigs ==
    {[input |-> Info(<<1, ch, 4, 4>>, "Float"),
      weight |-> Info(<<ch, 1, 3, 3>>, "Float"),
      bias |-> Info(<<ch>>, "Float"),
      meta |-> <<TRUE, TRUE, TRUE>>,
      stride |-> st, pad |-> pd, dilation |-> IntArg(1), groups |-> ch,
      edits |-> {}] :
        ch \in {2, 4}, st \in PassingStrides, pd \in PassingPads}

\* The configurations an edit of the named test can lead to.
Edited(c, check) ==
    IF check = "dtype"
    THEN {[c EXCEPT !.input.dtype = "Half"], [c EXCEPT !.weight.dtype = "Int"],
          [c EXCEPT !.bias.dtype = "Double"]}
    ELSE IF check = "rank"
    THEN {[c EXCEPT !.input.dims = SubSeq(@, 1, 3)],
          [c EXCEPT !.weight.dims = Append(@, 1)],
          [c EXCEPT !.bias.dims = Append(@, 1)]}
    ELSE IF check = "depthwise"
    THEN {[c EXCEPT !.groups = 1], [c EXCEPT !.weight.dims[1] = @ + 1],
          [c EXCEPT !.weight.dims[2] = 2]}
    ELSE IF check = "kernel"
    THEN {[c EXCEPT !.weight.dims[3] = 5, !.weight.dims[4] = 5],
          [c EXCEPT !.weight.dims[4] = 5], [c EXCEPT !.weight.dims[3] = 1]}
    ELSE IF check = "stride" THEN {[c EXCEPT !.stride = ListArg(<<1, 2>>)]}
    ELSE IF check = "pad" THEN {[c EXCEPT !.pad = ListArg(<<0, 1>>)]}
    ELSE IF check = "dilation"
    THEN {[c EXCEPT !.dilation = IntArg(2)],
          [c EXCEPT !.dilation = ListArg(<<1, 2>>)]}
    ELSE IF check = "input" THEN {[c EXCEPT !.meta[1] = FALSE]}
    ELSE IF check = "weight" THEN {[c EXCEPT !.meta[2] = FALSE]}
    ELSE {[c EXCEPT !.meta[3] = FALSE]}

InitDispatch ==
    /\ cfg \in DispatchConfigs
    /\ pc = "call"
    /\ nest = <<>>
    /\ main = NullLoop
    /\ cur = <<0, 0>>
    /\ out = <<>>
    /\ res = NoResult

Perturb ==
    /\ pc = "call"
    /\ Cardinality(cfg.edits) < MaxEdits
    /\ \E check \in (OracleChecks \cup Operands) \ cfg.edits :
           \E c \in Edited(cfg, check) :
               cfg' = [c EXCEPT !.edits = @ \cup {check}]
    /\ UNCHANGED <<pc, nest, main, cur, out, res>>

Dispatch ==
    /\ pc = "call"
    /\ res' = computeConv2dResult(cfg)
    /\ pc' = "returned"
    /\ UNCHANGED <<cfg, nest, main, cur, out>>

NextDispatch ==
    \/ Perturb
    \/ Dispatch

SpecDispatch == InitDispatch /\ [][NextDispatch]_vars

(***************************************************************************)
(* conv2d_depthwise_static on its own, for every kernel size R = S.        *)
(***************************************************************************)
ShapeConfigs ==
    {[mode |-> "static_nobias", input |-> <<1, 1, h, w>>,
      weight |-> <<1, 1, r, r>>, stride |-> st, pad |-> pd, groups |-> 1,
      wpat |-> "finite"] :
        h \in 1..MaxH, w \in 1..MaxH, r \in 1..MaxR, st \in Strides \cup {3},
        pd \in Pads}

InitShape ==
    /\ cfg \in ShapeConfigs
    /\ pc = "entry"
    /\ nest = <<>>
    /\ main = NullLoop
    /\ cur = <<0, 0>>
    /\ out = <<>>
    /\ res = NoResult

NextShape == BuildStatic

SpecShape == InitShape /\ [][NextShape]_vars


(***************************************************************************)
(* Properties of the oracle and the dispatcher (SpecDispatch).             *)
(***************************************************************************)
\* The seven checks, each stated on its own.
DtypesAreFloat(c) ==
    \A t \in {c.input, c.weight, c.bias} : t.dtype = "Float"

RanksAre441(c) ==
    Len(c.input.dims) = 4 /\ Len(c.weight.dims) = 4 /\ Len(c.bias.dims) = 1

IsDepthwise(c) ==
    /\ Len(c.input.dims) >= 2 /\ Len(c.weight.dims) >= 2
    /\ c.input.dims[2] = c.weight.dims[1]
    /\ c.weight.dims[1] = c.groups
    /\ c.weight.dims[2] = 1

KernelIs3x3(c) ==
    Len(c.weight.dims) >= 4 /\ c.weight.dims[3] = 3 /\ c.weight.dims[4] = 3

Isotropic(v) == IF v.isList THEN v.list[1] = v.list[2] ELSE TRUE

DilationIsOne(c) == \A i \in 1..Len(c.dilation.list) : c.dilation.list[i] = 1

AllSevenChecks(c) ==
    /\ DtypesAreFloat(c) /\ RanksAre441(c) /\ IsDepthwise(c) /\ KernelIs3x3(c)
    /\ Isotropic(c.stride) /\ Isotropic(c.pad) /\ DilationIsOne(c)

OracleAccepts(c) ==
    conv2dIsSupported(c.input, c.weight, c.bias, PairInt(c.stride),
                      PairInt(c.pad), PairInt(c.dilation), c.groups)

\* C4: conv2dIsSupported returns true if and only if all seven checks pass
\* (float dtypes, ranks 4/4/1, depthwise, 3x3 kernel, isotropic stride,
\* isotropic padding, dilation 1); a configuration in which any one of the
\* seven was changed to a failing value is rejected, an unchanged one accepted.
OracleIffAllSevenChecks ==
    pc \in {"call", "returned"} =>
        /\ OracleAccepts(cfg) <=> AllSevenChecks(cfg)
        /\ OracleAccepts(cfg) <=> (cfg.edits \cap OracleChecks = {})

\* C4 witness: the oracle has rejected a configuration in which exactly one
\* check (the kernel size, now 5x5) fails and the six others pass.
OracleRejectsSingleFailingCheck ==
    /\ pc = "returned"
    /\ cfg.edits = {"kernel"}
    /\ cfg.weight.dims[3] = 5 /\ cfg.weight.dims[4] = 5
    /\ DtypesAreFloat(cfg) /\ RanksAre441(cfg) /\ IsDepthwise(cfg)
    /\ Isotropic(cfg.stride) /\ Isotropic(cfg.pad) /\ DilationIsOne(cfg)
    /\ ~OracleAccepts(cfg)

\* C5: computeConv2d invokes conv2d_depthwise if and only if the metadata of
\* input, weight and bias is available and the oracle accepts; in every other
\* case the builder is not invoked, no error is raised, and the result is the
\* buffer "conv" bound to a single ExternalCall of nnc_aten_conv2d.
BuilderIffMetadataAndOracle ==
    pc = "returned" =>
        LET wanted == /\ \A i \in 1..3 : cfg.meta[i]
                      /\ AllSevenChecks(cfg)
        IN  /\ (Len(res.builderCalls) = 1) <=> wanted
            /\ wanted => res.path = "conv2d_depthwise" /\ ~res.error
            /\ ~wanted =>
                   /\ res.builderCalls = <<>>
                   /\ ~res.error
                   /\ res.buf = "conv"
                   /\ Len(res.stmts) = 1
                   /\ res.stmts[1].call = "nnc_aten_conv2d"

\* C5 witness: both kinds of fallback have been taken, one at a time: here the
\* oracle would accept but the bias metadata is missing, and the call returned
\* the external call.
FallbackOnMissingMetadata ==
    /\ pc = "returned"
    /\ cfg.edits = {"bias"}
    /\ AllSevenChecks(cfg)
    /\ res.path = "external"

(***************************************************************************)
(* Properties of the output extents (SpecShape).                           *)
(***************************************************************************)
\* The extents of the loops oh and ow of the reduction just built.
BuiltOH == nest[1].body[1].body[1].stop
BuiltOW == nest[1].body[1].body[1].body[1].stop

Built == pc \in {"A1", "B0", "return"}

\* floor(a / b) + 1 for b >= 1.
FloorExtent(X, R, pad, stride) == ((X - R + 2 * pad) \div stride) + 1

\* C6 as stated: the extents of the produced computation are
\* OH = floor((H - R + 2*pad)/stride) + 1 and OW = floor((W - S + 2*pad)/stride) + 1
\* for all H, W >= 1, R = S, pad >= 0, stride >= 1.
ExtentsAreFloor ==
    Built =>
        /\ BuiltOH = FloorExtent(cH(cfg), cR(cfg), cfg.pad, cfg.stride)
        /\ BuiltOW = FloorExtent(cW(cfg), cS(cfg), cfg.pad, cfg.stride)

\* The quotient rounded toward zero, written out by the sign of the numerator.
TowardZeroExtent(X, R, pad, stride) ==
    LET num == X - R + 2 * pad
    IN  IF num >= 0 THEN (num \div stride) + 1
        ELSE 1 - ((R - X - 2 * pad) \div stride)

\* C6 amended: the extents are the quotient rounded toward zero, plus one;
\* they are the floor form whenever H - R + 2*pad >= 0 (W likewise).
ExtentsAreTruncated ==
    Built =>
        /\ BuiltOH = TowardZeroExtent(cH(cfg), cR(cfg), cfg.pad, cfg.stride)
        /\ BuiltOW = TowardZeroExtent(cW(cfg), cS(cfg), cfg.pad, cfg.stride)
        /\ cH(cfg) - cR(cfg) + 2 * cfg.pad >= 0 =>
               BuiltOH = FloorExtent(cH(cfg), cR(cfg), cfg.pad, cfg.stride)
        /\ cW(cfg) - cS(cfg) + 2 * cfg.pad >= 0 =>
               BuiltOW = FloorExtent(cW(cfg), cS(cfg), cfg.pad, cfg.stride)

\* C6 witness: a reduction was built where the height quotient is positive and
\* not integral (the rounding matters) and the width quotient is negative.
BuiltWithRoundedExtents ==
    /\ Built
    /\ cH(cfg) - cR(cfg) + 2 * cfg.pad > 0
    /\ (cH(cfg) - cR(cfg) + 2 * cfg.pad) % cfg.stride # 0
    /\ cW(cfg) - cS(cfg) + 2 * cfg.pad < 0
    /\ BuiltOH = FloorExtent(cH(cfg), cR(cfg), cfg.pad, cfg.stride)


(***************************************************************************)
(* Properties of the lowering and of the statement it returns (Spec).      *)
(***************************************************************************)
Lowered == pc = "return" /\ IsStatic(cfg)

\* The indices of the ReduceOp Store executions among evs.
ReduceIdx(evs) == {i \in 1..Len(evs) : evs[i].kind = "reduce"}

\* ih, iw out of [0, H) x [0, W), on the indices of v.
OutOfInput(c, v) ==
    LET ih == v.oh * c.stride - c.pad + v.r
        iw == v.ow * c.stride - c.pad + v.s
    IN  ih < 0 \/ iw < 0 \/ ih >= cH(c) \/ iw >= cW(c)

\* Every (c, r, s) once, in the order of the reduction loops (C / groups = 1).
AllTaps(c) ==
    [i \in 1..(cR(c) * cS(c)) |-> <<0, (i - 1) \div cS(c), (i - 1) % cS(c)>>]

\* C1: for every static configuration the statement returned after Rule A,
\* Rule B or no rule writes, when evaluated, the same value to every output
\* element as the unsliced reduction, and every element is initialised once
\* and receives every (c, r, s) contribution exactly once.
SlicedEqualsUnsliced ==
    (pc = "done" /\ IsStatic(cfg)) =>
        /\ out = RunNest(cfg, ReduceNest(cfg))
        /\ \A n \in DOMAIN out : \A k \in DOMAIN out[n] :
             \A oh \in DOMAIN out[n][k] : \A ow \in DOMAIN out[n][k][oh] :
                 /\ out[n][k][oh][ow].inits = 1
                 /\ out[n][k][oh][ow].contribs = AllTaps(cfg)
        /\ DOMAIN out = 0..(cN(cfg) - 1)
        /\ \A n \in DOMAIN out :
               /\ DOMAIN out[n] = 0..(cK(cfg) - 1)
               /\ \A k \in DOMAIN out[n] :
                      /\ DOMAIN out[n][k] = 0..(cOH(cfg) - 1)
                      /\ \A oh \in DOMAIN out[n][k] :
                             DOMAIN out[n][k][oh] = 0..(cOW(cfg) - 1)

\* C1 witness: a statement sliced by Rule B into three pieces along both oh
\* and ow has been evaluated to the end, over more than one channel.
EvaluatedSlicedNest ==
    /\ pc = "done" /\ IsStatic(cfg) /\ IsRuleB(cfg)
    /\ cK(cfg) = 2 /\ cH(cfg) >= 4 /\ cW(cfg) >= 4
    /\ nest # ReduceNest(cfg)
    /\ out[0][1][cOH(cfg) - 1][1].inits = 1

\* The zero-padded sum over the first i taps, in the order (r, s), started
\* from bias[k] or from 0.
RECURSIVE PaddedSum(_, _, _, _, _, _)
PaddedSum(c, n, k, oh, ow, i) ==
    IF i = 0 THEN (IF HasBias(c) THEN BiasData(k) ELSE Fin(0))
    ELSE LET r == (i - 1) \div cS(c)
             s == (i - 1) % cS(c)
             ih == oh * c.stride - c.pad + r
             iw == ow * c.stride - c.pad + s
             prev == PaddedSum(c, n, k, oh, ow, i - 1)
         IN  IF 0 <= ih /\ ih < cH(c) /\ 0 <= iw /\ iw < cW(c)
             THEN FAdd(prev, FMul(InputData(n, k, ih, iw), WeightData(c, k, r, s)))
             ELSE prev

\* Some tap of the element (oh, ow) falls in the padding and has a weight
\* that is not finite.
PaddingMeetsNonFinite(c, k, oh, ow) ==
    \E r \in 0..(cR(c) - 1) : \E s \in 0..(cS(c) - 1) :
        /\ OutOfInput(c, [oh |-> oh, ow |-> ow, r |-> r, s |-> s])
        /\ ~IsFinite(WeightData(c, k, r, s))

\* C2 as stated: every output element equals bias[k] (0 without bias) plus the
\* sum of input * weight over just the taps whose input offsets are in bounds.
OutputIsPaddedConvolution ==
    (pc = "done" /\ IsStatic(cfg)) =>
        \A n \in DOMAIN out : \A k \in DOMAIN out[n] :
          \A oh \in DOMAIN out[n][k] : \A ow \in DOMAIN out[n][k][oh] :
              out[n][k][oh][ow].acc =
                  PaddedSum(cfg, n, k, oh, ow, cR(cfg) * cS(cfg))

\* C2 amended: the same, for every element none of whose padding taps has an
\* infinite or NaN weight; an element with such a tap is NaN.
OutputIsPaddedConvolutionOnFinitePadding ==
    (pc = "done" /\ IsStatic(cfg)) =>
        \A n \in DOMAIN out : \A k \in DOMAIN out[n] :
          \A oh \in DOMAIN out[n][k] : \A ow \in DOMAIN out[n][k][oh] :
              out[n][k][oh][ow].acc =
                  IF PaddingMeetsNonFinite(cfg, k, oh, ow) THEN NaN
                  ELSE PaddedSum(cfg, n, k, oh, ow, cR(cfg) * cS(cfg))

\* C2 witness: the bias variant with stride 1 and padding 1 has been
\* evaluated, and the corner element (0, k, 0, 0) is bias[k] plus the four
\* products with r, s in {1, 2}.
CornerIsBiasPlusFourProducts ==
    /\ pc = "done" /\ cfg.mode = "static_bias" /\ cfg.wpat = "finite"
    /\ cfg.stride = 1 /\ cfg.pad = 1 /\ cK(cfg) = 2 /\ cH(cfg) >= 3
    /\ LET P(r, s) == InputData(0, 1, r - 1, s - 1).v * WeightData(cfg, 1, r, s).v
       IN  out[0][1][0][0].acc =
               Fin(BiasData(1).v + P(1, 1) + P(1, 2) + P(2, 1) + P(2, 2))

\* C3 as stated: the mask is 1 exactly when ih, iw is out of [0,H) x [0,W); the
\* contribution is then exactly zero whatever the weight, and otherwise it is
\* input[n,k,ih,iw] * weight[k,c,r,s].
MaskedContributionIsZero ==
    pc = "return" =>
        LET evs == StoresOf(nest)
        IN  \A i \in ReduceIdx(evs) :
                LET v == evs[i].v
                IN  /\ (cMask(cfg, v) = 1) <=> OutOfInput(cfg, v)
                    /\ OutOfInput(cfg, v) => Contribution(cfg, v) = Fin(0)
                    /\ ~OutOfInput(cfg, v) =>
                           Contribution(cfg, v) =
                               FMul(InputData(v.n, v.k, IH(cfg, v), IW(cfg, v)),
                                    WeightData(cfg, v.k, v.r, v.s))

\* C3 amended: as stated, except that a masked contribution is 0.f * weight:
\* exactly zero for every finite weight, and NaN for an infinite or NaN weight.
MaskedContributionIsZeroTimesWeight ==
    pc = "return" =>
        LET evs == StoresOf(nest)
        IN  \A i \in ReduceIdx(evs) :
                LET v == evs[i].v
                    w == WeightData(cfg, v.k, v.r, v.s)
                IN  /\ cMask(cfg, v) \in {0, 1}
                    /\ (cMask(cfg, v) = 1) <=> OutOfInput(cfg, v)
                    /\ OutOfInput(cfg, v) =>
                           Contribution(cfg, v) = IF IsFinite(w) THEN Fin(0) ELSE NaN
                    /\ ~OutOfInput(cfg, v) =>
                           Contribution(cfg, v) =
                               FMul(InputData(v.n, v.k, IH(cfg, v), IW(cfg, v)), w)

\* C3 witness: the dynamic builder returned a reduction with a masked tap
\* (above the input) and an unmasked tap with a nonzero product.
ReturnedWithMaskedAndUnmaskedTaps ==
    /\ pc = "return" /\ ~IsStatic(cfg) /\ cfg.pad = 2 /\ cfg.stride = 2
    /\ LET evs == StoresOf(nest)
       IN  /\ \E i \in ReduceIdx(evs) :
                  IH(cfg, evs[i].v) < 0 /\ Contribution(cfg, evs[i].v) = Fin(0)
           /\ \E i \in ReduceIdx(evs) :
                  /\ ~OutOfInput(cfg, evs[i].v)
                  /\ Contribution(cfg, evs[i].v) \notin {Fin(0), Undef, NaN}

\* An execution in the tail of both oh and ow after Rule A.
InTailA(ev) == ev.kind = "reduce" /\ ev.lo.oh = 2 /\ ev.lo.ow = 2

PieceOf(x, X) ==
    IF x = 0 THEN <<0, 1>> ELSE IF x = X - 1 THEN <<X - 1, X>> ELSE <<1, X - 1>>

\* C8: when Rule B completes, the ow loop and its parent oh loop are each in
\* three pieces, a 1-iteration head, a main range [1, X-1) and a 1-iteration
\* tail, and in every iteration of main x main (1 <= oh < OH-1 and
\* 1 <= ow < OW-1) the mask is false for all r, s.
RuleBMainUnmasked ==
    (Lowered /\ IsRuleB(cfg)) =>
        LET evs == StoresOf(nest)
        IN  \A i \in 1..Len(evs) :
                LET v == evs[i].v
                IN  /\ <<evs[i].lo.oh, evs[i].hi.oh>> = PieceOf(v.oh, cOH(cfg))
                    /\ <<evs[i].lo.ow, evs[i].hi.ow>> = PieceOf(v.ow, cOW(cfg))
                    /\ (/\ evs[i].kind = "reduce"
                        /\ 1 <= v.oh /\ v.oh < cOH(cfg) - 1
                        /\ 1 <= v.ow /\ v.ow < cOW(cfg) - 1) =>
                           /\ Mask(cfg, v) = 0
                           /\ ~OutOfInput(cfg, v)
                    /\ (evs[i].kind = "reduce" /\ Mask(cfg, v) # 0) =>
                           \/ evs[i].hi.oh - evs[i].lo.oh = 1
                           \/ evs[i].hi.ow - evs[i].lo.ow = 1

\* C8 witness: Rule B completed with a main x main range of more than one
\* iteration each way, and a masked tap in the peeled last row.
RuleBMainReached ==
    /\ Lowered /\ IsRuleB(cfg) /\ cH(cfg) >= 4 /\ cW(cfg) >= 4
    /\ LET evs == StoresOf(nest)
       IN  /\ \E i \in ReduceIdx(evs) :
                  /\ evs[i].lo.oh = 1 /\ evs[i].lo.ow = 1 /\ evs[i].v.oh = 2
                  /\ Mask(cfg, evs[i].v) = 0
           /\ \E i \in ReduceIdx(evs) :
                  evs[i].lo.oh = cOH(cfg) - 1 /\ Mask(cfg, evs[i].v) = 1

\* C9: in every iteration, before and after every loop split, each load that
\* is evaluated is in bounds: the input at (n, k, ih, iw) only when the mask
\* is false, then within N, C, H, W; the weight at (k, c, r, s) within
\* K, C/groups = 1, R, S; the bias at k within K.
LoadsInBounds ==
    (pc \in {"A1", "A2", "B0", "B1", "B2", "B3", "B4", "B5", "return"}) =>
        LET evs == StoresOf(nest)
        IN  \A i \in 1..Len(evs) :
                LET v == evs[i].v
                    ls == LoadsOf(cfg, evs[i])
                IN  /\ \A l \in ls : l.ok
                    /\ (\E l \in ls : l.buf = "input") =>
                           /\ cMask(cfg, v) = 0
                           /\ 0 <= v.n /\ v.n < cN(cfg) /\ 0 <= v.k /\ v.k < cC(cfg)
                           /\ 0 <= IH(cfg, v) /\ IH(cfg, v) < cH(cfg)
                           /\ 0 <= IW(cfg, v) /\ IW(cfg, v) < cW(cfg)
                    /\ (\E l \in ls : l.buf = "weight") =>
                           /\ 0 <= v.k /\ v.k < cK(cfg) /\ v.c = 0
                           /\ 0 <= v.r /\ v.r < cR(cfg) /\ 0 <= v.s /\ v.s < cS(cfg)
                    /\ (\E l \in ls : l.buf = "bias") => 0 <= v.k /\ v.k < cK(cfg)
                    /\ evs[i].kind = "reduce" =>
                           ((\E l \in ls : l.buf = "input") <=> ~OutOfInput(cfg, v))
                    /\ (evs[i].kind = "init" /\ HasBias(cfg)) =>
                           \E l \in ls : l.buf = "bias"

\* C9 witness: between the two splits of Rule A, on the bias variant, a tap
\* below the input is masked (no input load) and another tap loads the input.
LoadsBetweenSplits ==
    /\ pc = "A2" /\ HasBias(cfg) /\ cH(cfg) = 5 /\ cW(cfg) >= 5
    /\ LET evs == StoresOf(nest)
       IN  /\ \E i \in ReduceIdx(evs) :
                  /\ IH(cfg, evs[i].v) = cH(cfg)
                  /\ \A l \in LoadsOf(cfg, evs[i]) : l.buf = "weight"
           /\ \E i \in ReduceIdx(evs) :
                  \E l \in LoadsOf(cfg, evs[i]) : l.buf = "input" /\ l.ok
           /\ \E i \in 1..Len(evs) : evs[i].lo.ow = 2

\* C10: under Rule B (stride 1, pad 1) with any H, W >= 1, each of sliceHead,
\* sliceTail, getParentLoop, sliceHead, sliceTail is applied to an existing
\* loop, never to a null one, and the lowering does not abort.
RuleBNeverSlicesNull ==
    (IsStatic(cfg) /\ IsRuleB(cfg)) =>
        /\ pc \in {"B1", "B2", "B3", "B4", "B5"} => main # NullLoop
        /\ pc # "crashed"

=============================================================================
